---- MODULE Spec2Model ----
(***************************************************************************)
(* AppRole secret-id rotation of src/vault/vault_approle_cli.py:           *)
(* VaultClient.rotate_secret_id, CommandRotateSecretId.run, the accessor   *)
(* cleanup of VaultClient.destroy_secret_id_accessors and the rotation     *)
(* strategies, run against a model of the secret store.                    *)
(*                                                                         *)
(* Abstractions.  Instants are natural numbers (ticks of one clock shared  *)
(* by the store and the caller); a credential is named by its accessor, so *)
(* a secret-id and its accessor carry the same number; a float quotient    *)
(* a / b is kept as the pair <<a, b>> with b > 0 and compared by cross     *)
(* multiplication.  Raw JSON fields of a lookup answer are a natural       *)
(* number (a parsable value), Absent (no such key) or Malformed.           *)
(***************************************************************************)
EXTENDS Integers, Sequences, FiniteSets, TLC

\* ---------------------------------------------------------------- bounds
MaxAcc == 3          \* accessor numbers 1..MaxAcc the store can hand out
MaxOldTime == 2      \* credentials present at the start were created in 1..MaxOldTime
MaxTicks == 1        \* ticks of the clock during the run
MaxT == 10           \* instants 0..MaxT given to the strategy on its own
MaxPercent == 105    \* --min-validity-period arguments 100 - MaxPercent .. MaxPercent
MaxDate == 4         \* instants and TTLs 0..MaxDate of a lookup answer parsed on its own
MaxCidrs == 2        \* length of the cidr_list and token_bound_cidrs of a lookup answer
MaxKeys == 2         \* length of the keys of a list answer
MaxCalls == 3        \* calls made on one client

\* One accessor more than one attempt needs, for two attempts that both issue.
AccIds == 1..(MaxAcc + 1)
Roles == {"A", "B"}
Attempts == {1, 2}
StartTime == MaxOldTime + 1
MaxTime == StartTime + MaxTicks
TTLs == {0, 2}       \* secret_id_ttl of the role; 0: the secret-id never expires
MinValidityPeriods == {34, 50}
Percents == (100 - MaxPercent)..MaxPercent
\* The two clients of the repository: the one inside vault_approle_cli.py and
\* the one of vault.py, which vault-approle-cli.py imports.
Impls == {"vault_approle_cli", "vault"}

\* ------------------------------------------------------- program constants
DEFAULT_MIN_VALIDITY_PERIOD_PERCENT == 34

\* Python's None for a timestamp that could not be obtained, an unset key.
None == -1
\* A key that the lookup answer does not carry.
Absent == -3
\* A value that neither iso8601.parse_date nor strptime / timedelta accepts.
Malformed == -2

VARIABLES
    now,             \* the clock
    store,           \* accessor number -> the store's entry for it
    args,            \* per attempt: the command line of rotate-secret-id
    pc,              \* per attempt: where CommandRotateSecretId.run stands
    ret,             \* per attempt: the dict rotate_secret_id returns, run extends
    listing,         \* per attempt: accessors listed and not yet looked up
    accessors_data,  \* per attempt: CommandRotateSecretId.run's accessors_data
    cleanup,         \* per attempt: locals of destroy_secret_id_accessors
    trace,           \* per attempt: the store calls made and the decision, in order
    reported,        \* per attempt: what output.communicate was given
    role_ttl,        \* role name -> the secret_id_ttl the store gives its secret-ids
    sv               \* a unit applied on its own: its inputs and its result

vars == <<now, store, role_ttl, args, pc, ret, listing, accessors_data, cleanup, trace, reported, sv>>

rotvars == <<now, store, role_ttl, args, pc, ret, listing, accessors_data, cleanup, trace, reported>>

\* ------------------------------------------------------------- the store
FreeEntry == [st |-> "free", role |-> "none", ctime |-> 0, ttl |-> 0, by |-> 0, killer |-> 0]

\* The accessors of any role: a listing that does not look at the role.
LiveOf_AnyRole(role) == {a \in AccIds : store[a].st = "live"}

LiveOf(role) == {a \in AccIds : store[a].st = "live" /\ store[a].role = role}

\* The store refuses a secret-id whose TTL has run out, tidied or not.
Expired(a) == store[a].ttl > 0 /\ now >= store[a].ctime + store[a].ttl

Usable(a) == a \in AccIds /\ store[a].st = "live" /\ ~Expired(a)

\* The expiration_time the store reports: for a secret-id that never expires
\* the zero time "0001-01-01T00:00:00Z", which is instant 0 here.
ExpirationOf(a) == IF store[a].ttl = 0 THEN 0 ELSE store[a].ctime + store[a].ttl

FreeIds == {a \in AccIds : store[a].st = "free"}

NextId == CHOOSE a \in FreeIds : \A b \in FreeIds : a <= b

\* All orders in which a listing can return the set S.
Perms(S) == {s \in [1..Cardinality(S) -> S] : \A i, j \in 1..Cardinality(S) : s[i] = s[j] => i = j}

\* ------------------------------------------------------- pure functions
\* Utils.parse_timestamp: the instant a well-formed string denotes; a value
\* it cannot parse raises ValueError (TypeError for a non-string), given here
\* as None since every caller catches both.
parse_timestamp(timestamp) == IF timestamp >= 0 THEN timestamp ELSE None

\* VaultClient._parse_validity_period_dates.  raised: the TypeError that
\* timedelta(seconds=...) raises outside of any try block.
parse_validity_period_dates(data) ==
    IF data.creation_time = Absent
    THEN [raised |-> FALSE, creation_time |-> None, expiration_time |-> None]
    ELSE IF parse_timestamp(data.creation_time) = None
    THEN [raised |-> FALSE, creation_time |-> None, expiration_time |-> None]
    ELSE IF data.secret_id_ttl # Absent
    THEN IF data.secret_id_ttl = Malformed
         THEN [raised |-> TRUE, creation_time |-> None, expiration_time |-> None]
         ELSE [raised |-> FALSE,
               creation_time |-> parse_timestamp(data.creation_time),
               expiration_time |-> parse_timestamp(data.creation_time) + data.secret_id_ttl]
    ELSE IF data.expiration_time = Absent \/ parse_timestamp(data.expiration_time) = None
    THEN [raised |-> FALSE, creation_time |-> parse_timestamp(data.creation_time),
          expiration_time |-> None]
    ELSE [raised |-> FALSE, creation_time |-> parse_timestamp(data.creation_time),
          expiration_time |-> parse_timestamp(data.expiration_time)]

\* VaultClient._parse_validity_period_dates of vault.py: the same without the
\* secret_id_ttl branch.
vault_parse_validity_period_dates(data) ==
    IF data.creation_time = Absent
    THEN [raised |-> FALSE, creation_time |-> None, expiration_time |-> None]
    ELSE IF parse_timestamp(data.creation_time) = None
    THEN [raised |-> FALSE, creation_time |-> None, expiration_time |-> None]
    ELSE IF data.expiration_time = Absent \/ parse_timestamp(data.expiration_time) = None
    THEN [raised |-> FALSE, creation_time |-> parse_timestamp(data.creation_time),
          expiration_time |-> None]
    ELSE [raised |-> FALSE, creation_time |-> parse_timestamp(data.creation_time),
          expiration_time |-> parse_timestamp(data.expiration_time)]

\* The comparison  seconds * 100. / lifetime <= percent  of two floats, for
\* lifetime # 0.
QuotientAtMost(seconds, lifetime, percent) ==
    IF lifetime > 0 THEN seconds * 100 <= percent * lifetime
    ELSE seconds * 100 >= percent * lifetime

\* The percentage without max(0., ...).
validity_period_percent_NoMax(seconds, lifetime) ==
    IF lifetime > 0 THEN <<seconds * 100, lifetime>>
    ELSE <<(0 - seconds) * 100, 0 - lifetime>>

\* max(0., seconds * 100. / lifetime) as a pair numerator, denominator.
validity_period_percent(seconds, lifetime) ==
    IF QuotientAtMost(seconds, lifetime, 0) THEN <<0, 1>>
    ELSE IF lifetime > 0 THEN <<seconds * 100, lifetime>>
    ELSE <<(0 - seconds) * 100, 0 - lifetime>>

\* StaticRotationStrategy.rotate with the default rotate=True.
StaticRotate(creation_time, expiration_time) == "rotate"

\* The strategy with  <  in the place of  <= : a credential whose remaining
\* percentage equals min_validity_period is kept.
ValidityPeriodRotate_Strict(min_validity_period, creation_time, expiration_time, t) ==
    IF creation_time = None \/ expiration_time = None THEN "rotate"
    ELSE IF expiration_time - t <= 0 THEN "rotate"
    ELSE IF expiration_time - creation_time = 0 THEN "ZeroDivisionError"
    ELSE IF QuotientAtMost(expiration_time - t, expiration_time - creation_time,
                           min_validity_period)
            /\ (expiration_time - t) * 100 #
                   min_validity_period * (expiration_time - creation_time)
    THEN "rotate" ELSE "keep"

\* The strategy that answers only two missing timestamps with True.
ValidityPeriodRotate_BothNone(min_validity_period, creation_time, expiration_time, t) ==
    IF creation_time = None /\ expiration_time = None THEN "rotate"
    ELSE IF creation_time = None \/ expiration_time = None THEN "keep"
    ELSE IF expiration_time - t <= 0 THEN "rotate"
    ELSE IF expiration_time - creation_time = 0 THEN "ZeroDivisionError"
    ELSE IF QuotientAtMost(expiration_time - t, expiration_time - creation_time,
                           min_validity_period)
    THEN "rotate" ELSE "keep"

\* The strategy without the test  seconds_until_expiration <= 0.
ValidityPeriodRotate_NoExpiryTest(min_validity_period, creation_time, expiration_time, t) ==
    IF creation_time = None \/ expiration_time = None THEN "rotate"
    ELSE IF expiration_time - creation_time = 0 THEN "ZeroDivisionError"
    ELSE IF QuotientAtMost(expiration_time - t, expiration_time - creation_time,
                           min_validity_period)
    THEN "rotate" ELSE "keep"

\* ValidityPeriodRotationStrategy.rotate(creation_time, expiration_time) of a
\* strategy built with min_validity_period, at the instant t.  The
\* subtraction of a None raises the TypeError the method catches; a division
\* by a lifetime of zero raises ZeroDivisionError, which it does not catch.
ValidityPeriodRotate(min_validity_period, creation_time, expiration_time, t) ==
    IF creation_time = None \/ expiration_time = None THEN "rotate"
    ELSE IF expiration_time - t <= 0 THEN "rotate"
    ELSE IF expiration_time - creation_time = 0 THEN "ZeroDivisionError"
    ELSE IF QuotientAtMost(expiration_time - t, expiration_time - creation_time,
                           min_validity_period)
    THEN "rotate" ELSE "keep"

\* A constructor that refuses the two ends of the range as well.
ValidMinValidityPeriod_Open(min_validity_period) ==
    ~(min_validity_period <= 10 \/ min_validity_period >= 90)

\* ValidityPeriodRotationStrategy.__init__: the values it accepts.
ValidMinValidityPeriod(min_validity_period) ==
    ~(min_validity_period < 10 \/ min_validity_period > 90)

\* CommandRotateSecretId.run's choice of the strategy, applied.
StrategyRotate(a, creation_time, expiration_time, t) ==
    IF a.force_rotation THEN StaticRotate(creation_time, expiration_time)
    ELSE ValidityPeriodRotate(a.min_validity_period, creation_time, expiration_time, t)

\* The rotation_strategy argument of rotate_secret_id: no object, or one of
\* the two strategies.
NoRotationStrategy == [kind |-> "None", min_validity_period |-> None]

StaticStrategy == [kind |-> "StaticRotationStrategy", min_validity_period |-> None]

ValidityPeriodStrategy(m) == [kind |-> "ValidityPeriodRotationStrategy", min_validity_period |-> m]

\* rotate_secret_id, lines 259-260, and approle_rotate_secret_id of vault.py,
\* lines 460-461.  vault.py tests the argument; vault_approle_cli.py tests
\* the class SecretIdRotationStrategy, which is always true, so it never
\* puts a strategy in the place of None.
DefaultRotationStrategy(impl, rotation_strategy) ==
    IF impl = "vault"
    THEN IF rotation_strategy.kind = "None"
         THEN ValidityPeriodStrategy(DEFAULT_MIN_VALIDITY_PERIOD_PERCENT)
         ELSE rotation_strategy
    ELSE rotation_strategy

\* rotation_strategy.rotate(creation_time, expiration_time) at the instant t;
\* None has no attribute rotate.
rotate(rotation_strategy, creation_time, expiration_time, t) ==
    CASE rotation_strategy.kind = "None" -> "AttributeError"
      [] rotation_strategy.kind = "StaticRotationStrategy" ->
             StaticRotate(creation_time, expiration_time)
      [] rotation_strategy.kind = "ValidityPeriodRotationStrategy" ->
             ValidityPeriodRotate(rotation_strategy.min_validity_period,
                                  creation_time, expiration_time, t)

\* VaultClient.rotate_secret_id between the answer of lookup_secret_id and
\* the call of set_secret_id, for the dates d the parser returned and the
\* answer s of the strategy: the percentage and the result dict.  raised: an
\* exception main does not catch, exc its name.
DecideWith(d, s, t) ==
    LET both == d.creation_time # None /\ d.expiration_time # None
        r == [creation_time |-> d.creation_time,
              expiration_time |-> d.expiration_time,
              rotated_secret_id |-> FALSE,
              validity_period_percent |->
                  IF both /\ d.expiration_time # d.creation_time
                  THEN validity_period_percent(d.expiration_time - t,
                                               d.expiration_time - d.creation_time)
                  ELSE <<-1, 1>>,
              parsing_errors |-> IF both THEN 0 ELSE 1,
              vault_response |-> 0,
              destroyed |-> None,
              errors |-> None]
    IN  IF d.raised
        THEN [raised |-> TRUE, exc |-> "TypeError", answer |-> FALSE, ret |-> r]
        ELSE IF both /\ d.expiration_time = d.creation_time
        THEN [raised |-> TRUE, exc |-> "ZeroDivisionError", answer |-> FALSE, ret |-> r]
        ELSE IF s \in {"ZeroDivisionError", "AttributeError"}
        THEN [raised |-> TRUE, exc |-> s, answer |-> FALSE, ret |-> r]
        ELSE [raised |-> FALSE, exc |-> "none", answer |-> (s = "rotate"), ret |-> r]

\* The same for the command: the parser of vault_approle_cli.py and the
\* strategy run builds from its arguments.
Decide(a, data, t) ==
    LET d == parse_validity_period_dates(data)
    IN  DecideWith(d, StrategyRotate(a, d.creation_time, d.expiration_time, t), t)

\* The branch taken whatever the strategy answers.
RotatesSecretId_Always(answer) == TRUE

\* rotate_secret_id, lines 281-285, and run, line 604: a secret-id is issued,
\* and the attempt goes on to the cleanup, exactly when the strategy's answer
\* is true.
RotatesSecretId(answer) == answer

\* sorted(accessors_data, key=creation_time, reverse=True): descending and
\* stable, entries of equal creation_time keep the order of the listing.
RECURSIVE InsertDesc(_, _)
InsertDesc(s, x) ==
    IF s = <<>> THEN <<x>>
    ELSE IF Head(s).creation_time >= x.creation_time
    THEN <<Head(s)>> \o InsertDesc(Tail(s), x)
    ELSE <<x>> \o s

RECURSIVE SortedAccessors(_)
SortedAccessors(s) ==
    IF s = <<>> THEN <<>>
    ELSE InsertDesc(SortedAccessors(SubSeq(s, 1, Len(s) - 1)), s[Len(s)])

\* A delete list that spares the two newest accessors.
DeleteList_SparesTwo(data) ==
    LET sorted_accessors == SortedAccessors(data)
    IN  [i \in 1..(Len(sorted_accessors) - 2) |-> sorted_accessors[i + 2].secret_id_accessor]

\* delete_secret_id_accessors: the accessors of sorted_accessors[1:].
DeleteList(data) ==
    LET sorted_accessors == SortedAccessors(data)
    IN  [i \in 1..(Len(sorted_accessors) - 1) |-> sorted_accessors[i + 1].secret_id_accessor]

\* destroy_secret_id_accessors, "if not secret_id_accessors": an empty list
\* is treated like no list, and the role's accessors are listed instead.
ListsAgain(secret_id_accessors) == secret_id_accessors = <<>>

\* ------------------------------------------------------ the client's token
\* A token is a string; NoToken is Python's None (no argument, no variable
\* in the environment, no token file), "" an empty value.
NoToken == "None"

NoHeader == "no header"

LoginToken == "login-token"

\* "not token" of Python.
Falsy(token) == token \in {NoToken, ""}

\* VaultClient._load_vault_token: VAULT_TOKEN of the environment, else the
\* content of ~/.vault-token; ValueError when neither gives a token.
load_vault_token(env, file) ==
    LET token == IF Falsy(env) /\ file # NoToken THEN file ELSE env
    IN  [exc |-> IF Falsy(token) THEN "ValueError" ELSE "none", token |-> token,
         loaded |-> TRUE]

\* VaultClient._get_vault_token: the token is loaded when there is none.
get_vault_token(vault_token, env, file) ==
    IF Falsy(vault_token)
    THEN load_vault_token(env, file)
    ELSE [exc |-> "none", token |-> vault_token, loaded |-> FALSE]

\* VaultClient.__init__ with an address given: vault_approle_cli.py keeps the
\* token argument, vault.py loads a token at once when it is given none.
VaultClientInit(impl, token, env, file) ==
    IF impl = "vault" /\ Falsy(token)
    THEN load_vault_token(env, file)
    ELSE [exc |-> "none", token |-> token, loaded |-> FALSE]

\* A rotate_secret_id that does not keep the token of its login.
session_token_after_login_Keeps(vault_token, login_exc, client_token) == vault_token

\* rotate_secret_id, line 262: self._vault_token = self.login(...); a login
\* that raises leaves the assignment undone.
session_token_after_login(vault_token, login_exc, client_token) ==
    IF login_exc = "none" THEN client_token ELSE vault_token

\* ------------------------------------------------ the issue of a secret-id
\* A JSON object as the set of its items; isdict is false for a null.
Dict(items) == [isdict |-> TRUE, items |-> items]

NoDict == [isdict |-> FALSE, items |-> {}]

\* json.dumps and the decoding the store applies to the metadata field.
json_dumps(dict) == [json |-> dict.items]

json_loads(text) == Dict(text.json)

\* Only the cidr_list of the old secret-id is carried over.
cidrs_OnlyCidrList(data) == {data.cidr_list[i] : i \in 1..Len(data.cidr_list)}

\* rotate_secret_id, line 264: set(data["cidr_list"] + data["token_bound_cidrs"]).
cidrs(data) ==
    LET both == data.cidr_list \o data.token_bound_cidrs
    IN  {both[i] : i \in 1..Len(both)}

\* VaultClient.set_secret_id up to the request it posts: the endpoint, the
\* form fields and the wrap header.  cidr_list is the list made of the set,
\* in some order.
set_secret_id_request(secret_id, wrap_ttl, cidr_list, metadata) ==
    LET md == IF ~metadata.isdict \/ metadata.items = {} THEN Dict({}) ELSE metadata
    IN  [sent |-> TRUE,
         endpoint |-> IF secret_id # None THEN "custom-secret-id" ELSE "secret-id",
         secret_id |-> IF secret_id # None THEN secret_id ELSE Absent,
         cidr_list |-> cidr_list,
         token_bound_cidrs |-> cidr_list,
         metadata |-> IF md.items # {} THEN [present |-> TRUE, text |-> json_dumps(md)]
                      ELSE [present |-> FALSE, text |-> json_dumps(Dict({}))],
         wrap_ttl |-> IF wrap_ttl # None THEN wrap_ttl ELSE Absent]

\* ------------------------------------------------- answers of the client
\* How a request of the client can end: a 2xx answer, another answer, a
\* connection that cannot be made, an answer that does not come in time.
Outcomes == {"ok", "error", "connection", "timeout"}

\* What a request raises: VaultException is raised by the client on a non-2xx
\* answer, the other two by the requests library.
Raises(outcome) ==
    CASE outcome = "ok" -> "none"
      [] outcome = "error" -> "VaultException"
      [] outcome = "connection" -> "ConnectionError"
      [] outcome = "timeout" -> "ReadTimeout"

\* A login that returns where it should raise.
login_NoRaise(outcome) == "none"

\* VaultClient.login: returns the client token, or raises.
login(outcome) == Raises(outcome)

\* A lookup that returns an answer without fields where it should raise.
lookup_secret_id_NoRaise(outcome, data) ==
    [exc |-> "none",
     data |-> IF outcome = "ok" THEN data
              ELSE [secret_id_accessor |-> 0, creation_time |-> Absent,
                    secret_id_ttl |-> Absent, expiration_time |-> Absent]]

\* VaultClient.lookup_secret_id: returns the answer's data, or raises.
lookup_secret_id(outcome, data) == [exc |-> Raises(outcome), data |-> data]

\* An issue that returns where it should raise.
set_secret_id_NoRaise(outcome, accessor) == [exc |-> "none", secret_id_accessor |-> accessor]

\* VaultClient.set_secret_id: returns the answer's data, or raises.
set_secret_id(outcome, accessor) == [exc |-> Raises(outcome), secret_id_accessor |-> accessor]

\* VaultClient.get_secret_id_accessors: the keys on a 2xx answer, the empty
\* list on 404; raises otherwise.
get_secret_id_accessors(outcome, status, keys) ==
    IF outcome = "ok" /\ status = "ok" THEN [exc |-> "none", keys |-> keys]
    ELSE IF outcome = "ok" /\ status = "404" THEN [exc |-> "none", keys |-> <<>>]
    ELSE [exc |-> Raises(outcome), keys |-> <<>>]

\* VaultClient.destroy_secret_id: True on a 2xx answer; raises otherwise, it
\* never returns False.
destroy_secret_id(outcome) == IF outcome = "ok" THEN "True" ELSE Raises(outcome)

\* requests.Response.ok: the status code is no client or server error.
ResponseOk(status_code) == status_code < 400

\* What a method returns or raises: value is the list returned; status_code
\* is the one the VaultException carries.
Returned(value) == [exc |-> "none", status_code |-> 0, value |-> value]

Raised(status_code) == [exc |-> "VaultException", status_code |-> status_code, value |-> <<>>]

\* A listing of the role names that raises on 404 like on any other error.
list_role_names_Raises404(status_code, keys) ==
    IF ResponseOk(status_code) THEN Returned(keys) ELSE Raised(status_code)

\* VaultClient.list_role_names, for the answer's status code and keys.
list_role_names(status_code, keys) ==
    IF ResponseOk(status_code) THEN Returned(keys)
    ELSE IF status_code = 404 THEN Returned(<<>>)
    ELSE Raised(status_code)

\* VaultClient.get_secret_id_accessors, for the answer's status code and keys.
get_secret_id_accessors_resp(status_code, keys) ==
    IF ResponseOk(status_code) THEN Returned(keys)
    ELSE IF status_code = 404 THEN Returned(<<>>)
    ELSE Raised(status_code)

\* The answer of the store to a listing of the role's accessors: 404 when
\* there is none, else the keys in some order.
ListAnswers(role) ==
    IF LiveOf(role) = {} THEN {[status |-> "404", keys |-> <<>>]}
    ELSE {[status |-> "ok", keys |-> k] : k \in Perms(LiveOf(role))}

Event(op, ok, arg) == [op |-> op, ok |-> ok, arg |-> arg]

\* ------------------------------------------------------------ the attempt
\* main's except clauses: ValueError, VaultException and ConnectionError end
\* the command with communicate(False, ...) and exit status 1; any other
\* exception leaves main uncaught, nothing is communicated.
MainCatches(exc) == exc \in {"ValueError", "VaultException", "ConnectionError"}

Failed(p, exc) ==
    IF MainCatches(exc)
    THEN /\ pc' = [pc EXCEPT ![p] = "failed"]
         /\ reported' = [reported EXCEPT ![p] = "error"]
    ELSE /\ pc' = [pc EXCEPT ![p] = "aborted"]
         /\ UNCHANGED reported

\* rotate_secret_id, line 262: login with the current secret-id.
Login(p) ==
    /\ pc[p] = "login"
    /\ \E o \in Outcomes :
        /\ o = "ok" => Usable(args[p].secret_id) /\ store[args[p].secret_id].role = args[p].role_name
        /\ trace' = [trace EXCEPT ![p] = Append(@, Event("login", o = "ok", args[p].secret_id))]
        /\ IF login(o) # "none"
           THEN Failed(p, login(o))
           ELSE pc' = [pc EXCEPT ![p] = "lookup"] /\ UNCHANGED reported
    /\ UNCHANGED <<now, store, role_ttl, args, ret, listing, accessors_data, cleanup, sv>>

\* The fields a lookup answer can carry for the accessor a.
LookupAnswers(a) ==
    [creation_time : {Absent, Malformed, store[a].ctime},
     secret_id_ttl : {Absent, Malformed, store[a].ttl},
     expiration_time : {Absent, Malformed, ExpirationOf(a)}]

\* rotate_secret_id, lines 263-281, and run, lines 603-607: the lookup of the
\* current secret-id, the decision, and the end of an attempt that keeps it.
LookupSecretId(p) ==
    /\ pc[p] = "lookup"
    /\ \E o \in Outcomes, data \in LookupAnswers(args[p].secret_id) :
        LET ok == o = "ok"
            r == lookup_secret_id(o, data)
            d == Decide(args[p], r.data, now)
        IN  /\ ok => Usable(args[p].secret_id)
            /\ IF r.exc # "none"
               THEN /\ trace' = [trace EXCEPT ![p] = Append(@, Event("lookup", ok, args[p].secret_id))]
                    /\ Failed(p, r.exc)
                    /\ UNCHANGED ret
               ELSE IF d.raised
               THEN /\ trace' = [trace EXCEPT ![p] = Append(@, Event("lookup", ok, args[p].secret_id))]
                    /\ pc' = [pc EXCEPT ![p] = "crashed"]
                    /\ UNCHANGED <<ret, reported>>
               ELSE /\ trace' = [trace EXCEPT ![p] =
                           Append(Append(@, Event("lookup", ok, args[p].secret_id)),
                                  Event("decide", d.answer, 0))]
                    /\ ret' = [ret EXCEPT ![p] = d.ret]
                    /\ IF RotatesSecretId(d.answer)
                       THEN pc' = [pc EXCEPT ![p] = "issue"] /\ UNCHANGED reported
                       ELSE /\ pc' = [pc EXCEPT ![p] = "done"]
                            /\ reported' = [reported EXCEPT ![p] = "result"]
    /\ UNCHANGED <<now, store, role_ttl, args, listing, accessors_data, cleanup, sv>>

\* rotate_secret_id, lines 282-287, and run, line 609: the new secret-id is
\* issued by the store and handed to process_new_secret_id.
SetSecretId(p) ==
    /\ pc[p] = "issue"
    /\ \E o \in Outcomes :
        LET ok == o = "ok"
            r == set_secret_id(o, IF FreeIds = {} THEN 0 ELSE NextId)
        IN  /\ ok => FreeIds # {}
            /\ trace' = [trace EXCEPT ![p] = Append(@, Event("issue", ok, r.secret_id_accessor))]
            /\ store' = IF ok
                        THEN [store EXCEPT ![NextId] =
                                 [st |-> "live", role |-> args[p].role_name, ctime |-> now,
                                  ttl |-> role_ttl[args[p].role_name], by |-> p, killer |-> 0]]
                        ELSE store
            /\ IF r.exc # "none"
               THEN Failed(p, r.exc) /\ UNCHANGED ret
               ELSE /\ ret' = [ret EXCEPT ![p].vault_response = r.secret_id_accessor,
                                          ![p].rotated_secret_id = TRUE]
                    /\ pc' = [pc EXCEPT ![p] = "list"]
                    /\ UNCHANGED reported
    /\ UNCHANGED <<now, role_ttl, args, listing, accessors_data, cleanup, sv>>

\* destroy_secret_id_accessors, lines 108-110: its locals for the list given.
StartCleanup(given) ==
    [given |-> given, retire |-> given, todo |-> given, destroyed |-> 0, error |-> 0]

\* destroy_secret_id_accessors returns, run lines 618-621: the counts enter
\* the result, which is communicated.
Finished(p, c) ==
    /\ ret' = [ret EXCEPT ![p].destroyed = c.destroyed, ![p].errors = c.error]
    /\ pc' = [pc EXCEPT ![p] = "done"]
    /\ reported' = [reported EXCEPT ![p] = "result"]

\* run, line 612: the listing of the role's accessors.
GetSecretIdAccessors(p) ==
    /\ pc[p] = "list"
    /\ \E o \in Outcomes, ans \in ListAnswers(args[p].role_name) :
        LET r == get_secret_id_accessors(o, ans.status, ans.keys)
        IN  /\ trace' = [trace EXCEPT ![p] = Append(@, Event("list", o = "ok", 0))]
            /\ IF r.exc # "none"
               THEN Failed(p, r.exc) /\ UNCHANGED <<listing, cleanup>>
               ELSE /\ listing' = [listing EXCEPT ![p] = r.keys]
                    /\ UNCHANGED reported
                    /\ IF r.keys = <<>>
                       THEN /\ cleanup' = [cleanup EXCEPT ![p] = StartCleanup(DeleteList(<<>>))]
                            /\ pc' = [pc EXCEPT ![p] =
                                   IF ListsAgain(DeleteList(<<>>)) THEN "destroy_list" ELSE "destroy"]
                       ELSE /\ pc' = [pc EXCEPT ![p] = "lookup_acc"]
                            /\ UNCHANGED cleanup
    /\ UNCHANGED <<now, store, role_ttl, args, ret, accessors_data, sv>>

\* run, lines 612-619: the lookup of the next listed accessor; after the last
\* one the accessors are sorted and all but the first are given to
\* destroy_secret_id_accessors.
LookupSecretIdAccessor(p) ==
    /\ pc[p] = "lookup_acc"
    /\ \E o \in Outcomes :
        LET a == Head(listing[p])
            r == lookup_secret_id(o, [secret_id_accessor |-> a, creation_time |-> store[a].ctime])
            data == Append(accessors_data[p], r.data)
        IN  /\ o = "ok" => store[a].st = "live"
            /\ trace' = [trace EXCEPT ![p] = Append(@, Event("lookup_acc", o = "ok", a))]
            /\ IF r.exc # "none"
               THEN Failed(p, r.exc) /\ UNCHANGED <<listing, accessors_data, cleanup>>
               ELSE /\ listing' = [listing EXCEPT ![p] = Tail(@)]
                    /\ accessors_data' = [accessors_data EXCEPT ![p] = data]
                    /\ UNCHANGED reported
                    /\ IF Tail(listing[p]) = <<>>
                       THEN /\ cleanup' = [cleanup EXCEPT ![p] = StartCleanup(DeleteList(data))]
                            /\ pc' = [pc EXCEPT ![p] =
                                   IF ListsAgain(DeleteList(data)) THEN "destroy_list" ELSE "destroy"]
                       ELSE UNCHANGED <<cleanup, pc>>
    /\ UNCHANGED <<now, store, role_ttl, args, ret, sv>>

\* destroy_secret_id_accessors, line 110: the listing it makes itself.
DestroyListAccessors(p) ==
    /\ pc[p] = "destroy_list"
    /\ \E o \in Outcomes, ans \in ListAnswers(args[p].role_name) :
        LET r == get_secret_id_accessors(o, ans.status, ans.keys)
        IN  /\ trace' = [trace EXCEPT ![p] = Append(@, Event("list", o = "ok", 0))]
            /\ IF r.exc # "none"
               THEN Failed(p, r.exc) /\ UNCHANGED <<cleanup, ret>>
               ELSE /\ cleanup' = [cleanup EXCEPT ![p].todo = r.keys, ![p].retire = r.keys]
                    /\ IF r.keys = <<>>
                       THEN Finished(p, cleanup[p])
                       ELSE /\ pc' = [pc EXCEPT ![p] = "destroy"]
                            /\ UNCHANGED <<ret, reported>>
    /\ UNCHANGED <<now, store, role_ttl, args, listing, accessors_data, sv>>

\* destroy_secret_id_accessors, lines 112-117: one turn of its loop.
DestroySecretIdAccessor(p) ==
    /\ pc[p] = "destroy"
    /\ \E o \in Outcomes :
        LET ok == o = "ok"
            sia == Head(cleanup[p].todo)
            r == destroy_secret_id(o)
            c == [cleanup[p] EXCEPT !.todo = Tail(@),
                                    !.destroyed = IF r = "True" THEN @ + 1 ELSE @,
                                    !.error = IF r = "False" THEN @ + 1 ELSE @]
        IN  /\ ok => store[sia].st = "live"
            /\ trace' = [trace EXCEPT ![p] = Append(@, Event("destroy", ok, sia))]
            /\ store' = IF ok THEN [store EXCEPT ![sia].st = "destroyed", ![sia].killer = p]
                        ELSE store
            /\ IF r \notin {"True", "False"}
               THEN Failed(p, r) /\ UNCHANGED <<cleanup, ret>>
               ELSE /\ cleanup' = [cleanup EXCEPT ![p] = c]
                    /\ IF c.todo = <<>>
                       THEN Finished(p, c)
                       ELSE UNCHANGED <<pc, ret, reported>>
    /\ UNCHANGED <<now, role_ttl, args, listing, accessors_data, sv>>

\* ------------------------------------------------------- the environment
\* Time passes.
Tick ==
    /\ now < MaxTime
    /\ now' = now + 1
    /\ UNCHANGED <<store, role_ttl, args, pc, ret, listing, accessors_data, cleanup, trace, reported, sv>>

\* The store removes a secret-id whose TTL has run out.
Expire(a) ==
    /\ store[a].st = "live"
    /\ Expired(a)
    /\ store' = [store EXCEPT ![a].st = "expired"]
    /\ UNCHANGED <<now, role_ttl, args, pc, ret, listing, accessors_data, cleanup, trace, reported, sv>>

\* ------------------------------------------------------ specifications
NoRet == [creation_time |-> None, expiration_time |-> None, rotated_secret_id |-> FALSE,
          validity_period_percent |-> <<-1, 1>>, parsing_errors |-> 0, vault_response |-> 0,
          destroyed |-> None, errors |-> None]

NoStrategy == [min_validity_period |-> DEFAULT_MIN_VALIDITY_PERIOD_PERCENT, strategy |-> "unset",
               creation_time |-> None, expiration_time |-> None, t |-> 0, result |-> "unset"]

\* The stores the attempt can meet: the caller's secret-id is accessor 1 of
\* role A, further secret-ids of the role may exist, all created before now.
InitStores(ttl) ==
    {s \in [AccIds -> {FreeEntry} \cup
                      [st : {"live"}, role : {"A"}, ctime : 1..MaxOldTime, ttl : {ttl},
                       by : {0}, killer : {0}]] :
        /\ s[1].st = "live"
        /\ \A a \in AccIds : a >= MaxAcc => s[a].st = "free"}

\* One attempt is about to start.
InitAttempt ==
    /\ now = StartTime
    /\ \E ttl \in TTLs :
        /\ role_ttl = [r \in Roles |-> ttl]
        /\ store \in InitStores(ttl)
    /\ \E m \in MinValidityPeriods, f \in BOOLEAN :
        args = [p \in Attempts |-> [role_name |-> "A", secret_id |-> 1,
                                    min_validity_period |-> m, force_rotation |-> f]]
    /\ pc = [p \in Attempts |-> IF p = 1 THEN "login" ELSE "off"]
    /\ ret = [p \in Attempts |-> NoRet]
    /\ listing = [p \in Attempts |-> <<>>]
    /\ accessors_data = [p \in Attempts |-> <<>>]
    /\ cleanup = [p \in Attempts |-> StartCleanup(<<>>)]
    /\ trace = [p \in Attempts |-> <<>>]
    /\ reported = [p \in Attempts |-> "none"]

Init == InitAttempt /\ sv = NoStrategy

Next ==
    \/ \E p \in Attempts : Login(p)
    \/ \E p \in Attempts : LookupSecretId(p)
    \/ \E p \in Attempts : SetSecretId(p)
    \/ \E p \in Attempts : GetSecretIdAccessors(p)
    \/ \E p \in Attempts : LookupSecretIdAccessor(p)
    \/ \E p \in Attempts : DestroyListAccessors(p)
    \/ \E p \in Attempts : DestroySecretIdAccessor(p)
    \/ Tick
    \/ \E a \in AccIds : Expire(a)

Spec == Init /\ [][Next]_vars

\* ------------------------------------------- the new secret-id's way
\* The arguments that decide where the new secret-id goes: the flat file,
\* the JSON file, or neither (the secret-id was given with --secret-id); the
\* parser lets one of the three be given.  has_secret_is_json_path: the
\* namespace has the attribute secret_is_json_path that line 730 reads; the
\* parser defines secret_id_json_path, a key of the config file can add it.
Destinations ==
    {[secret_id_file |-> f, secret_id_json_file |-> j, has_secret_is_json_path |-> h] :
        f \in BOOLEAN, j \in BOOLEAN, h \in BOOLEAN} \
    {d \in [secret_id_file : BOOLEAN, secret_id_json_file : BOOLEAN,
            has_secret_is_json_path : BOOLEAN] : d.secret_id_file /\ d.secret_id_json_file}

\* Utils.upsert_json_file(value, json_file, json_path): json.loads is given
\* the path of the file, not its text, so the file never counts as valid
\* JSON and its content is replaced by the one key.  keys: the keys the file
\* holds afterwards, with the secret-id it holds.
upsert_json_file(keys, value) == [keys |-> {"secret_id"}, secret_id |-> value]

\* A process_new_secret_id that swallows what a write raises.
process_new_secret_id_Swallows(d, writes) ==
    IF d.secret_id_file
    THEN [deleted |-> TRUE, file |-> writes, json |-> FALSE, logged |-> FALSE, exc |-> "none"]
    ELSE IF d.secret_id_json_file
    THEN [deleted |-> TRUE, file |-> FALSE, json |-> d.has_secret_is_json_path /\ writes,
          logged |-> FALSE, exc |-> "none"]
    ELSE [deleted |-> FALSE, file |-> FALSE, json |-> FALSE, logged |-> TRUE, exc |-> "none"]

\* Utils.process_new_secret_id(ret, args) for the destination d, when the
\* write to the file succeeds or raises: whether the value was deleted from
\* ret["vault_response"], written to the flat file, written to the JSON
\* file, logged, and the exception raised.
process_new_secret_id(d, writes) ==
    IF d.secret_id_file
    THEN [deleted |-> TRUE, file |-> writes, json |-> FALSE, logged |-> FALSE,
          exc |-> IF writes THEN "none" ELSE "OSError"]
    ELSE IF d.secret_id_json_file
    THEN IF ~d.has_secret_is_json_path
         THEN [deleted |-> TRUE, file |-> FALSE, json |-> FALSE, logged |-> FALSE,
               exc |-> "AttributeError"]
         ELSE [deleted |-> TRUE, file |-> FALSE, json |-> writes, logged |-> FALSE,
               exc |-> IF writes THEN "none" ELSE "OSError"]
    ELSE [deleted |-> FALSE, file |-> FALSE, json |-> FALSE, logged |-> TRUE, exc |-> "none"]

NoProcessing == [deleted |-> FALSE, file |-> FALSE, json |-> FALSE, logged |-> FALSE, exc |-> "unset"]

InitProcess ==
    /\ InitAttempt
    /\ \E d \in Destinations :
        sv = [args |-> d, processed |-> NoProcessing,
              json_file |-> [keys |-> {"role_id", "secret_id"}, secret_id |-> "old"]]

\* run, line 609: Utils.process_new_secret_id(ret, args), after the issue and
\* before the listing.  An exception it raises is none that main catches.
ProcessNewSecretId(p) ==
    /\ pc[p] = "list"
    /\ sv.processed.exc = "unset"
    /\ \E writes \in BOOLEAN :
        LET r == process_new_secret_id(sv.args, writes)
        IN  /\ sv' = [sv EXCEPT !.processed = r,
                                !.json_file = IF r.json THEN upsert_json_file(@.keys, "new") ELSE @]
            /\ IF r.exc # "none"
               THEN Failed(p, r.exc)
               ELSE UNCHANGED <<pc, reported>>
    /\ UNCHANGED <<now, store, role_ttl, args, ret, listing, accessors_data, cleanup, trace>>

NextProcess ==
    \/ \E p \in Attempts : Login(p)
    \/ \E p \in Attempts : LookupSecretId(p)
    \/ \E p \in Attempts : SetSecretId(p)
    \/ \E p \in Attempts : ProcessNewSecretId(p)
    \/ \E p \in Attempts : sv.processed.exc = "none" /\ GetSecretIdAccessors(p)
    \/ \E p \in Attempts : LookupSecretIdAccessor(p)
    \/ \E p \in Attempts : DestroyListAccessors(p)
    \/ \E p \in Attempts : DestroySecretIdAccessor(p)
    \/ Tick
    \/ \E a \in AccIds : Expire(a)

SpecProcess == InitProcess /\ [][NextProcess]_vars

\* ------------------------------------------------------- add-secret-id
\* CommandAddSecretId.run on its own, against the store.  The role holds any
\* accessors, or none.
AddStores(ttl) == InitStores(ttl) \cup {[a \in AccIds |-> FreeEntry]}

\* run, line 562: the accessors are destroyed when the listing is not empty.
add_after_listing_Never(accessors) == "issue"

add_after_listing(accessors) == IF accessors # <<>> THEN "relist" ELSE "issue"

InitAdd ==
    /\ now = StartTime
    /\ \E ttl \in TTLs :
        /\ role_ttl = [r \in Roles |-> ttl]
        /\ store \in AddStores(ttl)
    /\ args = [p \in Attempts |-> [role_name |-> "A", secret_id |-> 1,
                                   min_validity_period |-> DEFAULT_MIN_VALIDITY_PERIOD_PERCENT,
                                   force_rotation |-> FALSE]]
    /\ pc = [p \in Attempts |-> "off"]
    /\ ret = [p \in Attempts |-> NoRet]
    /\ listing = [p \in Attempts |-> <<>>]
    /\ accessors_data = [p \in Attempts |-> <<>>]
    /\ cleanup = [p \in Attempts |-> StartCleanup(<<>>)]
    /\ trace = [p \in Attempts |-> <<>>]
    /\ reported = [p \in Attempts |-> "none"]
    /\ \E destroy_others \in BOOLEAN, d \in Destinations :
        sv = [destroy_others |-> destroy_others, args |-> d,
              before |-> LiveOf("A"),
              pc |-> IF destroy_others THEN "list" ELSE "issue",
              todo |-> <<>>, destroyed |-> 0, issued |-> 0, failed_at |-> "none",
              processed |-> NoProcessing]

\* An exception ends the command: main reports the ones it catches.
AddFailed(at, exc) ==
    sv' = [sv EXCEPT !.pc = IF MainCatches(exc) THEN "failed" ELSE "aborted", !.failed_at = at]

\* run, lines 560-562: with --destroy-others the role's accessors are listed.
AddGetSecretIdAccessors ==
    /\ sv.pc = "list"
    /\ \E o \in Outcomes, ans \in ListAnswers("A") :
        LET r == get_secret_id_accessors(o, ans.status, ans.keys)
        IN  IF r.exc # "none" THEN AddFailed("list", r.exc)
            ELSE sv' = [sv EXCEPT !.pc = add_after_listing(r.keys)]
    /\ UNCHANGED rotvars

\* run, line 564, and destroy_secret_id_accessors, lines 108-110: called
\* without a list, it lists the role's accessors itself.
AddDestroyListAccessors ==
    /\ sv.pc = "relist"
    /\ \E o \in Outcomes, ans \in ListAnswers("A") :
        LET r == get_secret_id_accessors(o, ans.status, ans.keys)
        IN  IF r.exc # "none" THEN AddFailed("list", r.exc)
            ELSE sv' = [sv EXCEPT !.todo = r.keys,
                                  !.pc = IF r.keys = <<>> THEN "issue" ELSE "destroy"]
    /\ UNCHANGED rotvars

\* destroy_secret_id_accessors, lines 112-117: one turn of its loop.
AddDestroySecretIdAccessor ==
    /\ sv.pc = "destroy"
    /\ \E o \in Outcomes :
        LET sia == Head(sv.todo)
            r == destroy_secret_id(o)
        IN  /\ o = "ok" => store[sia].st = "live"
            /\ store' = IF o = "ok" THEN [store EXCEPT ![sia].st = "destroyed", ![sia].killer = 1]
                        ELSE store
            /\ IF r \notin {"True", "False"} THEN AddFailed("destroy", r)
               ELSE sv' = [sv EXCEPT !.todo = Tail(@),
                                     !.destroyed = IF r = "True" THEN @ + 1 ELSE @,
                                     !.pc = IF Tail(sv.todo) = <<>> THEN "issue" ELSE "destroy"]
    /\ UNCHANGED <<now, role_ttl, args, pc, ret, listing, accessors_data, cleanup, trace, reported>>

\* run, lines 567-579: the new secret-id is issued.
AddSetSecretId ==
    /\ sv.pc = "issue"
    /\ \E o \in Outcomes :
        LET r == set_secret_id(o, IF FreeIds = {} THEN 0 ELSE NextId)
        IN  /\ o = "ok" => FreeIds # {}
            /\ store' = IF o = "ok"
                        THEN [store EXCEPT ![NextId] =
                                 [st |-> "live", role |-> "A", ctime |-> now,
                                  ttl |-> role_ttl["A"], by |-> 1, killer |-> 0]]
                        ELSE store
            /\ IF r.exc # "none" THEN AddFailed("issue", r.exc)
               ELSE sv' = [sv EXCEPT !.issued = r.secret_id_accessor, !.pc = "process"]
    /\ UNCHANGED <<now, role_ttl, args, pc, ret, listing, accessors_data, cleanup, trace, reported>>

\* run, lines 581-582: the new secret-id is handed over and the result
\* communicated.
AddProcessNewSecretId ==
    /\ sv.pc = "process"
    /\ \E writes \in BOOLEAN :
        LET r == process_new_secret_id(sv.args, writes)
        IN  IF r.exc # "none"
            THEN sv' = [sv EXCEPT !.processed = r, !.failed_at = "process",
                                  !.pc = IF MainCatches(r.exc) THEN "failed" ELSE "aborted"]
            ELSE sv' = [sv EXCEPT !.processed = r, !.pc = "done"]
    /\ UNCHANGED rotvars

NextAdd ==
    \/ AddGetSecretIdAccessors
    \/ AddDestroyListAccessors
    \/ AddDestroySecretIdAccessor
    \/ AddSetSecretId
    \/ AddProcessNewSecretId
    \/ Tick
    \/ \E a \in AccIds : Expire(a)

SpecAdd == InitAdd /\ [][NextAdd]_vars

\* Two attempts at once, each a process of its own with its own client: for
\* two roles or for one, each with the secret-id it holds.  The secret-ids
\* live longer than the run, or run out during it.
LongTTL == MaxTime + 1

ConcTTLs == (TTLs \ {0}) \cup {LongTTL}

InitConc ==
    /\ now = StartTime
    /\ \E role \in Roles, f \in [Attempts -> BOOLEAN], ttl \in ConcTTLs :
        /\ role_ttl = [r \in Roles |-> ttl]
        /\ store = [a \in AccIds |->
                      IF a \in Attempts
                      THEN [st |-> "live", role |-> IF a = 1 THEN "A" ELSE role,
                            ctime |-> MaxOldTime, ttl |-> ttl, by |-> 0, killer |-> 0]
                      ELSE FreeEntry]
        /\ args = [p \in Attempts |->
                     [role_name |-> IF p = 1 THEN "A" ELSE role, secret_id |-> p,
                      min_validity_period |-> DEFAULT_MIN_VALIDITY_PERIOD_PERCENT,
                      force_rotation |-> f[p]]]
    /\ pc = [p \in Attempts |-> "login"]
    /\ ret = [p \in Attempts |-> NoRet]
    /\ listing = [p \in Attempts |-> <<>>]
    /\ accessors_data = [p \in Attempts |-> <<>>]
    /\ cleanup = [p \in Attempts |-> StartCleanup(<<>>)]
    /\ trace = [p \in Attempts |-> <<>>]
    /\ reported = [p \in Attempts |-> "none"]
    /\ sv = NoStrategy

\* The store refuses the call of an event as it stands: a login or lookup
\* with a secret-id that is no longer usable, a lookup or destroy of an
\* accessor that is no longer there, an issue when no accessor is left.
Refused(e) ==
    CASE e.op \in {"login", "lookup"} -> ~Usable(e.arg)
      [] e.op \in {"lookup_acc", "destroy"} -> store[e.arg].st # "live"
      [] e.op = "issue" -> FreeIds = {}
      [] OTHER -> FALSE

\* The keys of a listing come in the store's order of the accessors, here
\* one of the two orders of their ids.
StoreOrder(keys) ==
    \/ \A i, j \in 1..Len(keys) : i < j => keys[i] < keys[j]
    \/ \A i, j \in 1..Len(keys) : i < j => keys[i] > keys[j]

\* The transport is reliable in this step of attempt p: a call fails only
\* when the store refuses it, with an error answer, a lookup answer carries
\* its fields, and a listing comes in the store's order.
Served(p) ==
    /\ StoreOrder(listing'[p])
    /\ \A i \in (Len(trace[p]) + 1)..Len(trace'[p]) :
          trace'[p][i].op # "decide" => trace'[p][i].ok \/ Refused(trace'[p][i])
    /\ ret'[p].parsing_errors = 0
    /\ pc'[p] \notin {"aborted", "crashed"}

NextConc ==
    \/ \E p \in Attempts : Login(p) /\ Served(p)
    \/ \E p \in Attempts : LookupSecretId(p) /\ Served(p)
    \/ \E p \in Attempts : SetSecretId(p) /\ Served(p)
    \/ \E p \in Attempts : GetSecretIdAccessors(p) /\ Served(p)
    \/ \E p \in Attempts : LookupSecretIdAccessor(p) /\ Served(p)
    \/ \E p \in Attempts : DestroyListAccessors(p) /\ Served(p) /\ StoreOrder(cleanup'[p].retire)
    \/ \E p \in Attempts : DestroySecretIdAccessor(p) /\ Served(p)
    \/ Tick
    \/ \E a \in AccIds : Expire(a)

SpecConc == InitConc /\ [][NextConc]_vars

\* --------------------------------------------------- repeated rotation
\* The command is run again after it has ended, as a timer runs it: with the
\* secret-id the caller then holds, the new one when the first run handed it
\* over, else the old one.  Every call of a run is served by the store.  A
\* run logs in at the instant it starts; time passes during the rest of a
\* run and between the runs.
Held == IF ret[1].rotated_secret_id /\ sv.processed.exc = "none" THEN ret[1].vault_response
        ELSE args[1].secret_id

InitRepeat ==
    /\ InitAttempt
    /\ \E d \in Destinations :
        sv = [args |-> d, processed |-> NoProcessing,
              json_file |-> [keys |-> {"role_id", "secret_id"}, secret_id |-> "old"],
              first |-> NoProcessing, started |-> None]

\* The second run starts.
RunAgain ==
    /\ pc[1] \in {"done", "failed", "aborted", "crashed"}
    /\ pc[2] = "off"
    /\ pc' = [pc EXCEPT ![2] = "login"]
    /\ args' = [args EXCEPT ![2].secret_id = Held]
    /\ sv' = [sv EXCEPT !.first = sv.processed, !.processed = NoProcessing, !.started = now]
    /\ UNCHANGED <<now, store, role_ttl, ret, listing, accessors_data, cleanup, trace, reported>>

NextRepeat ==
    \/ \E p \in Attempts : Login(p) /\ Served(p)
    \/ \E p \in Attempts : LookupSecretId(p) /\ Served(p)
    \/ \E p \in Attempts : SetSecretId(p) /\ Served(p)
    \/ \E p \in Attempts : ProcessNewSecretId(p)
    \/ \E p \in Attempts : sv.processed.exc = "none" /\ GetSecretIdAccessors(p) /\ Served(p)
    \/ \E p \in Attempts : LookupSecretIdAccessor(p) /\ Served(p)
    \/ \E p \in Attempts : DestroyListAccessors(p) /\ Served(p)
    \/ \E p \in Attempts : DestroySecretIdAccessor(p) /\ Served(p)
    \/ RunAgain
    \/ Tick /\ \A p \in Attempts : pc[p] # "login"
    \/ \E a \in AccIds : Expire(a)

SpecRepeat == InitRepeat /\ [][NextRepeat]_vars

\* ------------------------------------------------------- the transport
\* The rotation variables of a specification that applies one unit alone.
RotationOff ==
    /\ now = 0
    /\ role_ttl = [r \in Roles |-> 0]
    /\ store = [a \in AccIds |-> FreeEntry]
    /\ args = [p \in Attempts |-> [role_name |-> "A", secret_id |-> 1,
                                   min_validity_period |-> DEFAULT_MIN_VALIDITY_PERIOD_PERCENT,
                                   force_rotation |-> FALSE]]
    /\ pc = [p \in Attempts |-> "off"]
    /\ ret = [p \in Attempts |-> NoRet]
    /\ listing = [p \in Attempts |-> <<>>]
    /\ accessors_data = [p \in Attempts |-> <<>>]
    /\ cleanup = [p \in Attempts |-> StartCleanup(<<>>)]
    /\ trace = [p \in Attempts |-> <<>>]
    /\ reported = [p \in Attempts |-> "none"]

BACKOFF_ATTEMPTS == 12

\* The methods the client sends: get, post and delete of the session.
Methods == {"GET", "POST", "DELETE"}

\* Retry(total, backoff_factor, status_forcelist) names no allowed_methods:
\* the methods retried on a status or a read error are urllib3's default,
\* the idempotent ones.
allowed_methods == {"HEAD", "GET", "PUT", "DELETE", "OPTIONS", "TRACE"}

is_method_retryable(method) == method \in allowed_methods

status_forcelist == {"500", "502", "503", "504"}

\* What one request can meet: an answer with a status, no connection, or no
\* answer within the timeout of 10 seconds.
Answers == {"200", "404", "500", "503", "connect_error", "read_timeout"}

\* The values of backoff_attempts a client is built with; 0 mounts no
\* adapter, the session's own adapter makes no retry.
BackoffAttempts == {0, 1, BACKOFF_ATTEMPTS}

\* Retry.is_retry and Retry.increment for one request that met the answer,
\* with total retries left: the request is made again, or the call ends with
\* the response or with the exception requests raises.
retry_step(backoff_attempts, method, total, answer) ==
    LET again == IF total - 1 < 0 THEN "exhausted" ELSE "again"
    IN  CASE answer = "connect_error" ->
                 IF again = "again" THEN "again" ELSE "ConnectionError"
          [] answer = "read_timeout" ->
                 IF backoff_attempts = 0 \/ ~is_method_retryable(method) THEN "ReadTimeout"
                 ELSE IF again = "again" THEN "again" ELSE "ConnectionError"
          [] OTHER ->
                 IF backoff_attempts = 0 \/ ~is_method_retryable(method)
                    \/ answer \notin status_forcelist
                 THEN "response"
                 ELSE IF again = "again" THEN "again" ELSE "RetryError"

InitTransport ==
    /\ RotationOff
    /\ \E backoff_attempts \in BackoffAttempts, method \in Methods :
        sv = [backoff_attempts |-> backoff_attempts, method |-> method,
              total |-> backoff_attempts, requests |-> 0, answers |-> {},
              answer |-> "none", result |-> "pending"]

\* One request of a call of the session, and what the adapter makes of its
\* answer.
SendRequest ==
    /\ sv.result = "pending"
    /\ \E answer \in Answers :
        LET r == retry_step(sv.backoff_attempts, sv.method, sv.total, answer)
        IN  sv' = [sv EXCEPT !.requests = @ + 1,
                             !.answers = @ \cup {answer},
                             !.answer = answer,
                             !.total = IF r = "again" THEN @ - 1 ELSE @,
                             !.result = IF r = "again" THEN "pending" ELSE r]
    /\ UNCHANGED rotvars

NextTransport == SendRequest

SpecTransport == InitTransport /\ [][NextTransport]_vars

\* ------------------------------------------------- wg_reset_peer.py
MaxDays == 2

SECONDS_PER_DAY == 86400

\* The values of --stale-threshold that validate_args accepts.
StaleThresholds == {30, 180, 600}

\* The time since the last handshake of a peer, in seconds: whole days and a
\* part of a day around the thresholds and the ends of the day.
HandshakeAges ==
    {d * SECONDS_PER_DAY + s : d \in 0..MaxDays,
                              s \in {0, 29, 30, 179, 180, 599, 600, SECONDS_PER_DAY - 1}}

\* timedelta.seconds of a difference of delta seconds: the part below a day,
\* the days are kept in timedelta.days.
timedelta_seconds(delta) == delta % SECONDS_PER_DAY

\* Peer.is_stale(seconds) for a peer whose last handshake was age seconds
\* before utcnow().
is_stale(age, seconds) == timedelta_seconds(age) >= seconds

\* WireguardWatchdog._get_all_peers: the command it runs is "false", whose
\* exit code is 1, so it raises WatchdogException.
get_all_peers_returncode == 1

InitWireguard ==
    /\ RotationOff
    /\ \E age \in HandshakeAges, threshold \in StaleThresholds, endpoint \in BOOLEAN :
        sv = [age |-> age, staleness_threshold |-> threshold, endpoint |-> endpoint,
              stale |-> "unset", check |-> "unset", reset |-> FALSE]

\* peer.is_stale(threshold) is called on the peer.
IsStale ==
    /\ sv.stale = "unset"
    /\ sv' = [sv EXCEPT !.stale = IF is_stale(sv.age, sv.staleness_threshold) THEN "True" ELSE "False"]
    /\ UNCHANGED rotvars

\* WireguardWatchdog.check_handshakes(interface) with the peer on the
\* interface: the peers are read, and a stale peer whose endpoint is found is
\* reset.
CheckHandshakes ==
    /\ sv.check = "unset"
    /\ IF get_all_peers_returncode # 0
       THEN sv' = [sv EXCEPT !.check = "WatchdogException"]
       ELSE sv' = [sv EXCEPT !.check = "returned",
                             !.reset = is_stale(sv.age, sv.staleness_threshold) /\ sv.endpoint]
    /\ UNCHANGED rotvars

NextWireguard == IsStale \/ CheckHandshakes

SpecWireguard == InitWireguard /\ [][NextWireguard]_vars

\* ------------------------------------------------ libvirt_lvm_vol.py
\* create_volume(vg_name, vol_name, base_image, impl, ...) with the native
\* binaries: the volume exists or not, its domain runs or not, the prompt
\* answers, and each command of impl succeeds or fails (CalledProcessError).
DEFAULT_VOL_SIZE_G == 20

\* vol_size as given: None or 0 (both "not vol_size"), or a size in GiB.
VolSizes == {None, 0, 10}

InitLibvirt ==
    /\ RotationOff
    /\ \E volume \in BOOLEAN, running \in BOOLEAN, proceed \in BOOLEAN, force_recreate \in BOOLEAN,
          vol_size \in VolSizes :
        sv = [volume |-> volume, running |-> running, proceed |-> proceed,
              force_recreate |-> force_recreate, vol_size |-> vol_size,
              power_cycle_domain |-> FALSE,
              pc |-> "volume_exists", calls |-> <<>>, create_failed |-> FALSE]

\* create_volume, lines 311-322: the default size; the volume is looked
\* for, an existing one is re-created when the prompt or force_recreate says
\* so.
VolumeExists ==
    /\ sv.pc = "volume_exists"
    /\ sv' = [sv EXCEPT !.vol_size = IF @ \in {None, 0} THEN DEFAULT_VOL_SIZE_G ELSE @,
                        !.pc = IF ~sv.volume THEN "create"
                               ELSE IF ~sv.proceed /\ ~sv.force_recreate THEN "returned"
                               ELSE "is_domain_running"]
    /\ UNCHANGED rotvars

\* create_volume, line 324: is_domain_running answers False as well when
\* virsh fails.
IsDomainRunning ==
    /\ sv.pc = "is_domain_running"
    /\ \E ok \in BOOLEAN :
        LET power_cycle_domain == ok /\ sv.running
        IN  sv' = [sv EXCEPT !.power_cycle_domain = power_cycle_domain,
                             !.pc = IF power_cycle_domain THEN "shutdown_domain" ELSE "remove_volume"]
    /\ UNCHANGED rotvars

\* create_volume, lines 325-326: virsh destroy.
ShutdownDomain ==
    /\ sv.pc = "shutdown_domain"
    /\ \E ok \in BOOLEAN :
        sv' = [sv EXCEPT !.calls = Append(@, "shutdown_domain"),
                         !.running = IF ok THEN FALSE ELSE @,
                         !.pc = IF ok THEN "remove_volume" ELSE "raised"]
    /\ UNCHANGED rotvars

\* create_volume, line 328: lvremove -f.
RemoveVolume ==
    /\ sv.pc = "remove_volume"
    /\ \E ok \in BOOLEAN :
        sv' = [sv EXCEPT !.calls = Append(@, "remove_volume"),
                         !.volume = IF ok THEN FALSE ELSE @,
                         !.pc = IF ~ok THEN "raised"
                                ELSE IF sv.power_cycle_domain THEN "start_domain" ELSE "create"]
    /\ UNCHANGED rotvars

\* create_volume, lines 330-331: virsh start.
StartDomain ==
    /\ sv.pc = "start_domain"
    /\ \E ok \in BOOLEAN :
        sv' = [sv EXCEPT !.calls = Append(@, "start_domain"),
                         !.running = IF ok THEN TRUE ELSE @,
                         !.pc = IF ok THEN "create" ELSE "raised"]
    /\ UNCHANGED rotvars

\* create_volume, lines 333-336: lvcreate and qemu-img; a failure is logged.
CreateVolume ==
    /\ sv.pc = "create"
    /\ \E ok \in BOOLEAN :
        sv' = [sv EXCEPT !.calls = Append(@, "create_volume"),
                         !.volume = IF ok THEN TRUE ELSE @,
                         !.create_failed = ~ok,
                         !.pc = "returned"]
    /\ UNCHANGED rotvars

NextLibvirt ==
    \/ VolumeExists
    \/ IsDomainRunning
    \/ ShutdownDomain
    \/ RemoveVolume
    \/ StartDomain
    \/ CreateVolume

SpecLibvirt == InitLibvirt /\ [][NextLibvirt]_vars

\* The strategy on its own: built with any min_validity_period, then asked
\* about every pair of timestamps, present or None, at every instant.
InitStrategy ==
    /\ now = 0
    /\ role_ttl = [r \in Roles |-> 0]
    /\ store = [a \in AccIds |-> FreeEntry]
    /\ args = [p \in Attempts |-> [role_name |-> "A", secret_id |-> 1,
                                   min_validity_period |-> DEFAULT_MIN_VALIDITY_PERIOD_PERCENT,
                                   force_rotation |-> FALSE]]
    /\ pc = [p \in Attempts |-> "off"]
    /\ ret = [p \in Attempts |-> NoRet]
    /\ listing = [p \in Attempts |-> <<>>]
    /\ accessors_data = [p \in Attempts |-> <<>>]
    /\ cleanup = [p \in Attempts |-> StartCleanup(<<>>)]
    /\ trace = [p \in Attempts |-> <<>>]
    /\ reported = [p \in Attempts |-> "none"]
    /\ \E m \in Percents : sv = [NoStrategy EXCEPT !.min_validity_period = m]

\* ValidityPeriodRotationStrategy(min_validity_period): the object, or the
\* ValueError of __init__.
Construct ==
    /\ sv.strategy = "unset"
    /\ sv' = [sv EXCEPT !.strategy = IF ValidMinValidityPeriod(sv.min_validity_period)
                                      THEN "built" ELSE "ValueError"]
    /\ UNCHANGED rotvars

\* strategy.rotate(creation_time, expiration_time) is called at the instant t.
Rotate ==
    /\ sv.strategy = "built"
    /\ sv.result = "unset"
    /\ \E creation_time \in {None} \cup 0..MaxT, expiration_time \in {None} \cup 0..MaxT,
          t \in 0..MaxT :
        sv' = [sv EXCEPT !.creation_time = creation_time,
                         !.expiration_time = expiration_time,
                         !.t = t,
                         !.result = ValidityPeriodRotate(sv.min_validity_period,
                                        creation_time, expiration_time, t)]
    /\ UNCHANGED rotvars

NextStrategy == Construct \/ Rotate

SpecStrategy == InitStrategy /\ [][NextStrategy]_vars

\* The decision of rotate_secret_id on its own: either client, given no
\* strategy or one of the strategies, and any lookup answer at any instant.
RotationStrategies ==
    {NoRotationStrategy, StaticStrategy} \cup {ValidityPeriodStrategy(m) : m \in MinValidityPeriods}

DateFields == {Absent, Malformed} \cup 0..MaxDate

NoDecision == [raised |-> FALSE, exc |-> "unset", answer |-> FALSE, ret |-> NoRet]

InitDates ==
    /\ now = 0
    /\ role_ttl = [r \in Roles |-> 0]
    /\ store = [a \in AccIds |-> FreeEntry]
    /\ args = [p \in Attempts |-> [role_name |-> "A", secret_id |-> 1,
                                   min_validity_period |-> DEFAULT_MIN_VALIDITY_PERIOD_PERCENT,
                                   force_rotation |-> FALSE]]
    /\ pc = [p \in Attempts |-> "off"]
    /\ ret = [p \in Attempts |-> NoRet]
    /\ listing = [p \in Attempts |-> <<>>]
    /\ accessors_data = [p \in Attempts |-> <<>>]
    /\ cleanup = [p \in Attempts |-> StartCleanup(<<>>)]
    /\ trace = [p \in Attempts |-> <<>>]
    /\ reported = [p \in Attempts |-> "none"]
    /\ \E impl \in Impls, rotation_strategy \in RotationStrategies :
        sv = [impl |-> impl, rotation_strategy |-> rotation_strategy,
              data |-> [creation_time |-> Absent, secret_id_ttl |-> Absent,
                        expiration_time |-> Absent],
              t |-> 0, strategy |-> NoRotationStrategy, decision |-> NoDecision]

\* rotate_secret_id from its first line to the answer of the strategy, for
\* the lookup answer data at the instant t.
RotateSecretIdDecides ==
    /\ sv.decision.exc = "unset"
    /\ \E data \in [creation_time : DateFields, secret_id_ttl : DateFields,
                     expiration_time : DateFields],
          t \in 0..MaxDate :
        LET strategy == DefaultRotationStrategy(sv.impl, sv.rotation_strategy)
            d == IF sv.impl = "vault" THEN vault_parse_validity_period_dates(data)
                 ELSE parse_validity_period_dates(data)
            s == rotate(strategy, d.creation_time, d.expiration_time, t)
        IN  sv' = [sv EXCEPT !.data = data, !.t = t, !.strategy = strategy,
                             !.decision = DecideWith(d, s, t)]
    /\ UNCHANGED rotvars

NextDates == RotateSecretIdDecides

SpecDates == InitDates /\ [][NextDates]_vars

\* The issue call of rotate_secret_id on its own, for every cidr_list,
\* token_bound_cidrs and metadata the old secret-id can carry.
CidrNames == {"10.0.0.0/8", "192.168.0.0/16"}

CidrLists == UNION {[1..n -> CidrNames] : n \in 0..MaxCidrs}

Metadatas == {NoDict, Dict({}), Dict({<<"host", "a">>}), Dict({<<"host", "a">>, <<"env", "b">>})}

NoRequest == [sent |-> FALSE]

InitIssue ==
    /\ now = 0
    /\ role_ttl = [r \in Roles |-> 0]
    /\ store = [a \in AccIds |-> FreeEntry]
    /\ args = [p \in Attempts |-> [role_name |-> "A", secret_id |-> 1,
                                   min_validity_period |-> DEFAULT_MIN_VALIDITY_PERIOD_PERCENT,
                                   force_rotation |-> FALSE]]
    /\ pc = [p \in Attempts |-> "off"]
    /\ ret = [p \in Attempts |-> NoRet]
    /\ listing = [p \in Attempts |-> <<>>]
    /\ accessors_data = [p \in Attempts |-> <<>>]
    /\ cleanup = [p \in Attempts |-> StartCleanup(<<>>)]
    /\ trace = [p \in Attempts |-> <<>>]
    /\ reported = [p \in Attempts |-> "none"]
    /\ \E cidr_list \in CidrLists, token_bound_cidrs \in CidrLists, metadata \in Metadatas :
        sv = [data |-> [cidr_list |-> cidr_list, token_bound_cidrs |-> token_bound_cidrs,
                        metadata |-> metadata],
              request |-> NoRequest]

\* rotate_secret_id, lines 264-265 and 282-284: the request of the new
\* secret-id, made from the lookup answer of the old one.
RotateSecretIdIssues ==
    /\ ~sv.request.sent
    /\ \E cidr_list \in Perms(cidrs(sv.data)) :
        sv' = [sv EXCEPT !.request = set_secret_id_request(None, None, cidr_list,
                                                           sv.data.metadata)]
    /\ UNCHANGED rotvars

NextIssue == RotateSecretIdIssues

SpecIssue == InitIssue /\ [][NextIssue]_vars

\* The two listings on their own, for every answer the method can be given.
\* 500 and 503 are in the retry's status_forcelist and reach the method only
\* from a client built with backoff_attempts = 0.
StatusCodes == {200, 400, 403, 404, 405, 429, 500, 501, 503}

KeyNames == {"a", "b"}

KeyLists == UNION {[1..n -> KeyNames] : n \in 0..MaxKeys}

InitList ==
    /\ now = 0
    /\ role_ttl = [r \in Roles |-> 0]
    /\ store = [a \in AccIds |-> FreeEntry]
    /\ args = [p \in Attempts |-> [role_name |-> "A", secret_id |-> 1,
                                   min_validity_period |-> DEFAULT_MIN_VALIDITY_PERIOD_PERCENT,
                                   force_rotation |-> FALSE]]
    /\ pc = [p \in Attempts |-> "off"]
    /\ ret = [p \in Attempts |-> NoRet]
    /\ listing = [p \in Attempts |-> <<>>]
    /\ accessors_data = [p \in Attempts |-> <<>>]
    /\ cleanup = [p \in Attempts |-> StartCleanup(<<>>)]
    /\ trace = [p \in Attempts |-> <<>>]
    /\ reported = [p \in Attempts |-> "none"]
    /\ sv = [method |-> "none", status_code |-> 0, keys |-> <<>>, result |-> Returned(<<>>)]

ListRoleNames ==
    /\ sv.method = "none"
    /\ \E status_code \in StatusCodes, keys \in KeyLists :
        sv' = [method |-> "list_role_names", status_code |-> status_code, keys |-> keys,
               result |-> list_role_names(status_code, keys)]
    /\ UNCHANGED rotvars

ListSecretIdAccessors ==
    /\ sv.method = "none"
    /\ \E status_code \in StatusCodes, keys \in KeyLists :
        sv' = [method |-> "get_secret_id_accessors", status_code |-> status_code,
               keys |-> keys,
               result |-> get_secret_id_accessors_resp(status_code, keys)]
    /\ UNCHANGED rotvars

NextList == ListRoleNames \/ ListSecretIdAccessors

SpecList == InitList /\ [][NextList]_vars

\* One client on its own: built with or without a token argument, in an
\* environment with or without VAULT_TOKEN and a token file, then called.
TokenArgs == {NoToken, "", "explicit-token"}

EnvTokens == {NoToken, "", "env-token"}

FileTokens == {NoToken, "", "file-token"}

NoCall == [op |-> "none", exc |-> "none", returned |-> NoToken, before |-> NoToken,
           loaded |-> FALSE, sent |-> FALSE]

Request(op, by, header, ok) == [op |-> op, by |-> by, header |-> header, ok |-> ok]

InitClient ==
    /\ now = 0
    /\ role_ttl = [r \in Roles |-> 0]
    /\ store = [a \in AccIds |-> FreeEntry]
    /\ args = [p \in Attempts |-> [role_name |-> "A", secret_id |-> 1,
                                   min_validity_period |-> DEFAULT_MIN_VALIDITY_PERIOD_PERCENT,
                                   force_rotation |-> FALSE]]
    /\ pc = [p \in Attempts |-> "off"]
    /\ ret = [p \in Attempts |-> NoRet]
    /\ listing = [p \in Attempts |-> <<>>]
    /\ accessors_data = [p \in Attempts |-> <<>>]
    /\ cleanup = [p \in Attempts |-> StartCleanup(<<>>)]
    /\ trace = [p \in Attempts |-> <<>>]
    /\ reported = [p \in Attempts |-> "none"]
    /\ \E impl \in Impls, token \in TokenArgs, env \in EnvTokens, file \in FileTokens :
        sv = [impl |-> impl, token |-> token, env |-> env, file |-> file,
              built |-> "unset", vault_token |-> NoToken, requests |-> <<>>,
              calls |-> 0, last |-> NoCall]

\* VaultClient(addr, token).
ClientConstruct ==
    /\ sv.built = "unset"
    /\ LET r == VaultClientInit(sv.impl, sv.token, sv.env, sv.file)
       IN  sv' = [sv EXCEPT !.built = IF r.exc = "none" THEN "built" ELSE r.exc,
                            !.vault_token = r.token]
    /\ UNCHANGED rotvars

\* A method that sends the token header, get_role say: the header is built
\* from _get_vault_token before the request is made.
ClientCallsWithToken ==
    /\ sv.built = "built"
    /\ sv.calls < MaxCalls
    /\ \E ok \in BOOLEAN :
        LET r == get_vault_token(sv.vault_token, sv.env, sv.file)
        IN  sv' = [sv EXCEPT
                !.calls = @ + 1,
                !.vault_token = r.token,
                !.requests = IF r.exc = "none"
                             THEN Append(@, Request("get_role", "caller", r.token, ok))
                             ELSE @,
                !.last = [op |-> "get_role",
                          exc |-> IF r.exc # "none" THEN r.exc
                                  ELSE IF ok THEN "none" ELSE "VaultException",
                          returned |-> NoToken, before |-> sv.vault_token,
                          loaded |-> r.loaded, sent |-> r.exc = "none"]]
    /\ UNCHANGED rotvars

\* VaultClient.login called by the login command: the token is returned to
\* the caller, who writes it to a file or prints it.
ClientLogin ==
    /\ sv.built = "built"
    /\ sv.calls < MaxCalls
    /\ \E o \in {"ok", "error"} :
        sv' = [sv EXCEPT
            !.calls = @ + 1,
            !.requests = Append(@, Request("login", "CommandLoginApprole", NoHeader, o = "ok")),
            !.last = [op |-> "login", exc |-> login(o),
                      returned |-> IF o = "ok" THEN LoginToken ELSE NoToken,
                      before |-> sv.vault_token, loaded |-> FALSE, sent |-> TRUE]]
    /\ UNCHANGED rotvars

\* VaultClient.login called by rotate_secret_id, which assigns the token it
\* returns to the client.
ClientRotateLogin ==
    /\ sv.built = "built"
    /\ sv.calls < MaxCalls
    /\ \E o \in {"ok", "error"} :
        sv' = [sv EXCEPT
            !.calls = @ + 1,
            !.vault_token = session_token_after_login(@, login(o), LoginToken),
            !.requests = Append(@, Request("login", "rotate_secret_id", NoHeader, o = "ok")),
            !.last = [op |-> "rotate_login", exc |-> login(o),
                      returned |-> IF o = "ok" THEN LoginToken ELSE NoToken,
                      before |-> sv.vault_token, loaded |-> FALSE, sent |-> TRUE]]
    /\ UNCHANGED rotvars

\* VaultClient.unwrap: the header carries the wrapping token it is given.
ClientUnwrap ==
    /\ sv.built = "built"
    /\ sv.calls < MaxCalls
    /\ \E ok \in BOOLEAN :
        sv' = [sv EXCEPT
            !.calls = @ + 1,
            !.requests = Append(@, Request("unwrap", "caller", "wrapping-token", ok)),
            !.last = [op |-> "unwrap", exc |-> IF ok THEN "none" ELSE "VaultException",
                      returned |-> NoToken, before |-> sv.vault_token,
                      loaded |-> FALSE, sent |-> TRUE]]
    /\ UNCHANGED rotvars

NextClient ==
    \/ ClientConstruct
    \/ ClientCallsWithToken
    \/ ClientLogin
    \/ ClientRotateLogin
    \/ ClientUnwrap

SpecClient == InitClient /\ [][NextClient]_vars

\* ---------------------------------------------------------------- claims
Range(s) == {s[i] : i \in 1..Len(s)}

Ended(p) == pc[p] \in {"done", "failed", "aborted", "crashed"}

\* The events of attempt p that are calls of the store.
IsCall(e) == e.op # "decide"

Has(p, op, ok) == \E i \in 1..Len(trace[p]) : trace[p][i].op = op /\ trace[p][i].ok = ok

FailedDestroys(p) ==
    Cardinality({i \in 1..Len(trace[p]) : trace[p][i].op = "destroy" /\ ~trace[p][i].ok})

\* The accessors the role ever had.
EverOf(role) == {a \in AccIds : store[a].st # "free" /\ store[a].role = role}

\* C1: after a rotation attempt whose strategy said rotate and whose store
\* calls all succeeded, exactly one accessor of the role is live, it has the
\* greatest creation time of the role's accessors, and every other one is gone.
C1_OneNewestRetained ==
    \A p \in Attempts :
        (/\ pc[p] = "done"
         /\ ret[p].rotated_secret_id
         /\ \A i \in 1..Len(trace[p]) : trace[p][i].ok)
        => \E a \in AccIds :
              /\ LiveOf(args[p].role_name) = {a}
              /\ \A b \in EverOf(args[p].role_name) : store[b].ctime <= store[a].ctime

\* C2: no destroy call of an attempt names the accessor the attempt issued.
C2_NewAccessorNotDestroyed ==
    \A p \in Attempts : \A i \in 1..Len(trace[p]) :
        (trace[p][i].op = "destroy" /\ ret[p].vault_response # 0)
        => trace[p][i].arg # ret[p].vault_response

\* C3: a destroy call that fails is counted in the error tally and does not
\* stop the loop: once the attempt has ended, a destroy call has been made
\* for every accessor of the list to retire.
C3_FailedDestroyTalliedLoopGoesOn ==
    \A p \in Attempts :
        Has(p, "destroy", FALSE)
        => /\ cleanup[p].error = FailedDestroys(p)
           /\ Ended(p) => \A a \in Range(cleanup[p].retire) :
                              \E i \in 1..Len(trace[p]) :
                                  trace[p][i].op = "destroy" /\ trace[p][i].arg = a

\* C4: once the issue call has succeeded, the attempt ends with a result that
\* says rotated and carries the number of failed destructions, whatever the
\* store answers during the cleanup.
C4_CleanupErrorNotFatal ==
    \A p \in Attempts :
        (Has(p, "issue", TRUE) /\ Ended(p))
        => /\ pc[p] = "done"
           /\ reported[p] = "result"
           /\ ret[p].rotated_secret_id
           /\ ret[p].errors = FailedDestroys(p)

\* C5: when the strategy answers false, the attempt ends with a result that
\* says not rotated, its last store call is the lookup of the current
\* secret-id, and it has issued and destroyed nothing.
C5_KeepMakesNoFurtherCall ==
    \A p \in Attempts :
        Has(p, "decide", FALSE)
        => /\ pc[p] = "done"
           /\ reported[p] = "result"
           /\ ~ret[p].rotated_secret_id
           /\ ret[p].vault_response = 0
           /\ Len(trace[p]) = 3
           /\ trace[p][1].op = "login" /\ trace[p][2].op = "lookup" /\ trace[p][3].op = "decide"
           /\ \A a \in AccIds : store[a].by # p /\ store[a].killer # p

C5_Witness ==
    \E p \in Attempts : Has(p, "decide", FALSE) /\ pc[p] = "done" /\ LiveOf(args[p].role_name) # {}

\* The stage of the rotation attempt an event belongs to.
Stage(op) ==
    CASE op = "login" -> 1
      [] op = "lookup" -> 2
      [] op = "decide" -> 3
      [] op = "issue" -> 4
      [] op \in {"list", "lookup_acc"} -> 5
      [] op = "destroy" -> 6

\* C6: the events of an attempt come in the order login, lookup, decision,
\* issue, listing and accessor lookups, destroys; an issue call is preceded by
\* a successful login and a successful lookup, a destroy call by a successful
\* issue.
C6_StagesInOrder ==
    \A p \in Attempts : \A i \in 1..Len(trace[p]) :
        /\ \A j \in 1..(i - 1) : Stage(trace[p][j].op) <= Stage(trace[p][i].op)
        /\ \A j \in 1..(i - 1) :
              Stage(trace[p][i].op) < 5 => Stage(trace[p][j].op) < Stage(trace[p][i].op)
        /\ trace[p][i].op = "issue"
           => /\ \E j \in 1..(i - 1) : trace[p][j] = Event("login", TRUE, args[p].secret_id)
              /\ \E j \in 1..(i - 1) : trace[p][j] = Event("lookup", TRUE, args[p].secret_id)
              /\ \E j \in 1..(i - 1) : trace[p][j] = Event("decide", TRUE, 0)
        /\ trace[p][i].op = "destroy"
           => \E j \in 1..(i - 1) : trace[p][j].op = "issue" /\ trace[p][j].ok

C6_Witness ==
    \E p \in Attempts :
        /\ pc[p] = "done"
        /\ Has(p, "destroy", TRUE)
        /\ \E i \in 1..Len(trace[p]) : trace[p][i].op = "lookup_acc"

\* C7: when the login or the lookup of the current secret-id fails, the
\* attempt has ended with the error given to the caller (reported by main, or
\* as the uncaught exception), has produced no result, and has made no issue
\* and no destroy call: it has issued and destroyed nothing.
C7_LoginLookupFailureFatal ==
    \A p \in Attempts :
        (Has(p, "login", FALSE) \/ Has(p, "lookup", FALSE))
        => /\ pc[p] \in {"failed", "aborted"}
           /\ pc[p] = "failed" <=> reported[p] = "error"
           /\ pc[p] = "aborted" <=> reported[p] = "none"
           /\ ret[p] = NoRet
           /\ \A i \in 1..Len(trace[p]) : trace[p][i].op \in {"login", "lookup"}
           /\ \A a \in AccIds : store[a].by # p /\ store[a].killer # p

C7_Witness ==
    \E p \in Attempts :
        /\ Has(p, "login", TRUE)
        /\ Has(p, "lookup", FALSE)
        /\ pc[p] = "failed"
        /\ Usable(args[p].secret_id)

\* C8 as stated: before a destroy call the attempt has made a successful
\* call that uses the secret-id it issued.
C8_VerifiedBeforeDestroy ==
    \A p \in Attempts : \A i \in 1..Len(trace[p]) :
        trace[p][i].op = "destroy"
        => \E j \in 1..(i - 1) :
              trace[p][j] = Event("login", TRUE, ret[p].vault_response)

\* C8 as amended: before a destroy call the issue call has succeeded and has
\* returned the new credential, and the attempt makes no call that uses the
\* new secret-id: its only login is the one with the secret-id it was given.
C8_IssuedBeforeDestroy ==
    \A p \in Attempts :
        /\ \A i \in 1..Len(trace[p]) :
              trace[p][i].op = "destroy"
              => /\ ret[p].vault_response # 0
                 /\ ret[p].rotated_secret_id
                 /\ \E j \in 1..(i - 1) :
                       trace[p][j] = Event("issue", TRUE, ret[p].vault_response)
        /\ \A i \in 1..Len(trace[p]) :
              trace[p][i].op \in {"login", "lookup"}
              => i <= 2 /\ trace[p][i].arg = args[p].secret_id /\ trace[p][i].arg # ret[p].vault_response

C8_Witness ==
    \E p \in Attempts : \E i \in 1..Len(trace[p]) :
        /\ trace[p][i] = Event("destroy", TRUE, args[p].secret_id)
        /\ store[ret[p].vault_response].st = "live"

\* C9: whatever timestamp fields a successful lookup answers, the attempt
\* obtains the strategy's decision and goes on without raising.
C9_TimestampsNeverCrash ==
    \A p \in Attempts :
        /\ pc[p] # "crashed"
        /\ Has(p, "lookup", TRUE) => \E i \in 1..Len(trace[p]) : trace[p][i].op = "decide"

\* C10: for timestamps with creation < expiration and now < expiration the
\* strategy answers true exactly when the remaining share of the lifetime,
\* in percent, is at most min_validity_period; equality rotates.
C10_RotateIffAtMostMinValidity ==
    (/\ sv.result # "unset"
     /\ sv.creation_time # None /\ sv.expiration_time # None
     /\ sv.creation_time < sv.expiration_time
     /\ sv.t < sv.expiration_time)
    => /\ sv.result \in {"rotate", "keep"}
       /\ sv.result = "rotate"
          <=> (sv.expiration_time - sv.t) * 100
                 <= sv.min_validity_period * (sv.expiration_time - sv.creation_time)

C10_Witness ==
    /\ sv.result = "rotate"
    /\ sv.creation_time # None /\ sv.expiration_time # None
    /\ sv.creation_time < sv.expiration_time
    /\ sv.t < sv.expiration_time
    /\ (sv.expiration_time - sv.t) * 100
          = sv.min_validity_period * (sv.expiration_time - sv.creation_time)

\* C11: the strategy answers true whenever creation_time is None,
\* expiration_time is None or both are, for every min_validity_period it can
\* be built with and whatever the timestamp that is present.
C11_MissingTimestampRotates ==
    (sv.result # "unset" /\ (sv.creation_time = None \/ sv.expiration_time = None))
    => sv.result = "rotate"

C11_Witness ==
    /\ sv.result = "rotate"
    /\ sv.creation_time = None
    /\ sv.expiration_time # None
    /\ sv.t < sv.expiration_time

\* C12: the strategy answers true whenever expiration_time <= now, for every
\* creation_time, one later than expiration_time included.
C12_ExpiredRotates ==
    (sv.result # "unset" /\ sv.expiration_time # None /\ sv.expiration_time <= sv.t)
    => sv.result = "rotate"

C12_Witness ==
    /\ sv.result = "rotate"
    /\ sv.creation_time # None /\ sv.expiration_time # None
    /\ sv.expiration_time < sv.t
    /\ sv.creation_time > sv.t

\* C13: building the strategy raises ValueError for every min_validity_period
\* below 10 or above 90 and succeeds for every value from 10 to 90.
C13_ConstructorRange ==
    sv.strategy # "unset"
    => /\ sv.strategy \in {"built", "ValueError"}
       /\ sv.strategy = "built"
          <=> (10 <= sv.min_validity_period /\ sv.min_validity_period <= 90)

C13_Witness ==
    /\ sv.strategy = "ValueError"
    /\ sv.min_validity_period = 91

\* C14: when the lookup answer carries a parsable creation_time and a
\* secret_id_ttl, the expiration_time of the decision is creation_time plus
\* secret_id_ttl seconds, an explicit expiration_time in the answer or not;
\* the explicit expiration_time is used only when there is no secret_id_ttl.
C14_TtlTakesPrecedence ==
    sv.decision.exc # "unset"
    => /\ (sv.data.creation_time >= 0 /\ sv.data.secret_id_ttl >= 0)
          => sv.decision.ret.expiration_time = sv.data.creation_time + sv.data.secret_id_ttl
       /\ (sv.data.creation_time >= 0 /\ sv.data.secret_id_ttl = Absent)
          => sv.decision.ret.expiration_time =
                IF sv.data.expiration_time >= 0 THEN sv.data.expiration_time ELSE None

\* C15: in every result of rotate_secret_id parsing_errors is 1 and
\* validity_period_percent is -1 exactly when creation_time or
\* expiration_time is None; otherwise parsing_errors is 0 and
\* validity_period_percent is max(0, remaining * 100 / lifetime), never
\* negative.  The parser yields no expiration_time without a creation_time,
\* and none at all for an absent or unparsable creation_time.
C15_ParsingErrorsAndPercent ==
    sv.decision.exc = "none"
    => LET r == sv.decision.ret
           remaining == r.expiration_time - sv.t
           lifetime == r.expiration_time - r.creation_time
           percent == r.validity_period_percent
       IN  /\ r.expiration_time # None => r.creation_time # None
           /\ sv.data.creation_time \in {Absent, Malformed}
              => r.creation_time = None /\ r.expiration_time = None
           /\ IF r.creation_time = None \/ r.expiration_time = None
              THEN r.parsing_errors = 1 /\ percent = <<-1, 1>>
              ELSE /\ r.parsing_errors = 0
                   /\ percent[2] > 0 /\ percent[1] >= 0
                   /\ IF remaining * lifetime <= 0
                      THEN percent[1] = 0
                      ELSE percent[1] * lifetime = remaining * 100 * percent[2]

C15_Witness ==
    /\ sv.decision.exc = "none"
    /\ sv.decision.ret.parsing_errors = 0
    /\ sv.decision.ret.expiration_time < sv.t
    /\ sv.decision.ret.creation_time < sv.decision.ret.expiration_time
    /\ sv.decision.ret.validity_period_percent = <<0, 1>>

\* C16: given no rotation strategy, rotate_secret_id decides with the
\* validity period strategy at 34 percent; the static strategy is used only
\* when the caller passes it.
C16_DefaultStrategy ==
    sv.decision.exc # "unset"
    => /\ sv.rotation_strategy.kind = "None"
          => /\ sv.strategy = ValidityPeriodStrategy(34)
             /\ sv.decision.exc # "AttributeError"
       /\ sv.strategy = StaticStrategy => sv.rotation_strategy = StaticStrategy

ResolvedToken ==
    IF ~Falsy(sv.token) THEN sv.token
    ELSE IF ~Falsy(sv.env) THEN sv.env
    ELSE IF ~Falsy(sv.file) THEN sv.file
    ELSE NoToken

LoggedInBefore(j) ==
    \E i \in 1..(j - 1) :
        sv.requests[i] = Request("login", "rotate_secret_id", NoHeader, TRUE)

\* C19: building the client never fails for a missing token; the first call
\* that sends the token uses the token argument, else the environment's
\* token, else the token file's; when none of them gives a token the call
\* raises ValueError and no request is sent; login and unwrap never load a
\* token.
C19_TokenResolvedLazilyInOrder ==
    /\ sv.built \in {"unset", "built"}
    /\ \A j \in 1..Len(sv.requests) :
          (sv.requests[j].op = "get_role" /\ ~LoggedInBefore(j))
          => ResolvedToken # NoToken /\ sv.requests[j].header = ResolvedToken
    /\ (sv.last.op = "get_role" /\ sv.last.before = NoToken /\ ResolvedToken = NoToken)
          => sv.last.exc = "ValueError" /\ ~sv.last.sent
    /\ sv.last.exc = "ValueError" => ~sv.last.sent
    /\ sv.last.op \in {"login", "rotate_login", "unwrap"} => ~sv.last.loaded

\* C20 as stated: after a successful login the client's session token is
\* the token the login returned.
C20_LoginSetsSessionToken ==
    (sv.last.op \in {"login", "rotate_login"} /\ sv.last.exc = "none")
    => sv.vault_token = sv.last.returned

\* C20: a login sends no token header and, when it succeeds, returns the
\* client token; login itself leaves the client's session token as it was.
\* rotate_secret_id assigns the token of its successful login to the client,
\* and every later call of that client that sends a token sends this one; a
\* failed login leaves the session token unchanged there too.
C20_RotationKeepsLoginToken ==
    /\ \A j \in 1..Len(sv.requests) :
          /\ sv.requests[j].op = "login" => sv.requests[j].header = NoHeader
          /\ (sv.requests[j].op = "get_role" /\ LoggedInBefore(j))
             => sv.requests[j].header = LoginToken
    /\ sv.last.op \in {"login", "rotate_login"}
          => sv.last.returned = IF sv.last.exc = "none" THEN LoginToken ELSE NoToken
    /\ sv.last.op = "login" => sv.vault_token = sv.last.before
    /\ sv.last.op = "rotate_login"
          => sv.vault_token = IF sv.last.exc = "none" THEN LoginToken ELSE sv.last.before

C20_Witness ==
    /\ Len(sv.requests) = 3
    /\ sv.requests[1] = Request("login", "CommandLoginApprole", NoHeader, TRUE)
    /\ sv.requests[2] = Request("login", "rotate_secret_id", NoHeader, TRUE)
    /\ sv.requests[3].op = "get_role" /\ sv.requests[3].header = LoginToken
    /\ sv.token = "explicit-token"

\* ---------------------------------------------------------------- C21
DifferentRoles == args[1].role_name # args[2].role_name

Other(p) == CHOOSE q \in Attempts : q # p

\* The accessors attempt p has named in a call or holds in a local.
Touched(p) ==
    {trace[p][i].arg : i \in {k \in 1..Len(trace[p]) :
         /\ trace[p][k].op \in {"issue", "lookup_acc", "destroy"}
         /\ trace[p][k].arg \in AccIds}}
    \cup Range(listing[p]) \cup Range(cleanup[p].todo) \cup Range(cleanup[p].retire)
    \cup {accessors_data[p][i].secret_id_accessor : i \in 1..Len(accessors_data[p])}

\* Attempt p takes this step.
StepOf(p) == trace'[p] # trace[p]

\* What the store holds for a role.
RoleView(s, role) == [a \in AccIds |-> IF s[a].role = role THEN s[a] ELSE FreeEntry]

\* C21: attempts for different roles are independent under every
\* interleaving.  An attempt never issues, lists, looks up or destroys an
\* accessor of the other role; and a step of one attempt changes neither
\* what the store holds for the other role nor anything the other attempt
\* holds, so that the other attempt proceeds and ends as it does alone.
C21_DifferentRolesIndependent ==
    /\ [](DifferentRoles =>
             \A p \in Attempts :
                 /\ \A a \in Touched(p) : store[a].role = args[p].role_name
                 /\ \A a \in AccIds : store[a].role = args[p].role_name =>
                        store[a].by \in {0, p} /\ store[a].killer \in {0, p})
    /\ [][DifferentRoles =>
             \A p \in Attempts : StepOf(p) =>
                 /\ RoleView(store', args[Other(p)].role_name)
                        = RoleView(store, args[Other(p)].role_name)
                 /\ <<pc[Other(p)], ret[Other(p)], listing[Other(p)], accessors_data[Other(p)],
                       cleanup[Other(p)], trace[Other(p)], reported[Other(p)]>>'
                    = <<pc[Other(p)], ret[Other(p)], listing[Other(p)], accessors_data[Other(p)],
                        cleanup[Other(p)], trace[Other(p)], reported[Other(p)]>>]_vars

\* Both attempts, for different roles, have ended, each with its old
\* accessor destroyed by itself and its new one live.
C21_Witness ==
    /\ DifferentRoles
    /\ \A p \in Attempts :
          /\ pc[p] = "done"
          /\ ret[p].rotated_secret_id
          /\ ret[p].destroyed = 1
          /\ store[p].killer = p
          /\ \E a \in AccIds : store[a].by = p /\ store[a].st = "live"

\* ---------------------------------------------------------------- C22
\* C22: in an attempt that issued and ended with a result, the accessors
\* destroyed plus the errors are one fewer than the accessors listed after
\* the issuance, and with every call answered ok the errors are 0.
C22_CountsMatchListing ==
    \A p \in Attempts :
        pc[p] = "done" /\ ret[p].rotated_secret_id =>
            /\ ret[p].destroyed + ret[p].errors = Len(accessors_data[p]) - 1
            /\ ret[p].errors = 0

\* ---------------------------------------------------------------- C23
\* C23: a client built with retries makes a request again, whatever its
\* method, when it meets 500, 502, 503, 504 or a connection-level failure,
\* for at most the configured number of retries, and then ends with an
\* error; a request that meets a 4xx answer is not made again.
C23_RetriesAnyMethodOn5xx ==
    sv.backoff_attempts > 0 /\ sv.result # "pending" =>
        /\ sv.requests <= sv.backoff_attempts + 1
        /\ sv.answer \in status_forcelist \cup {"connect_error", "read_timeout"} =>
              /\ sv.total = 0
              /\ sv.result \notin {"response"}
        /\ "404" \in sv.answers => sv.answer = "404" /\ sv.result = "response"

\* ---------------------------------------------------------------- C24
Handed == sv.processed.file \/ sv.processed.json \/ sv.processed.logged

DestroyCalls(p) == {i \in 1..Len(trace[p]) : trace[p][i].op = "destroy"}

C25_NewSecretReachesCaller ==
    \A p \in Attempts :
        Ended(p) /\ ret[p].rotated_secret_id =>
            /\ \/ sv.processed.file
               \/ sv.processed.json
               \/ sv.processed.logged /\ ~sv.processed.deleted
            /\ sv.processed.deleted => sv.processed.file \/ sv.processed.json

\* ---------------------------------------------------------------- C26
SameRole == args[1].role_name = args[2].role_name

BothIssuedAndEnded == \A p \in Attempts : Ended(p) /\ ret[p].rotated_secret_id

C27_DestroyOnlyAfterIssue ==
    sv.destroy_others =>
        /\ (\E a \in AccIds : store[a].killer = 1) => sv.issued # 0
        /\ sv.failed_at = "issue" => \A a \in sv.before : store[a].st # "destroyed"
        /\ sv.pc = "done" => LiveOf("A") \subseteq {sv.issued}

\* C27 amended: add-secret-id with --destroy-others destroys the role's
\* accessors before it issues the new secret-id.  When the issue call is
\* made no accessor of the role is live, so a failed issue call leaves the
\* role without a secret-id; from the issue on, and when the command
\* succeeds, the only live accessor is the new one.  Without
\* --destroy-others nothing is destroyed.
C27_DestroyBeforeIssue ==
    /\ sv.destroy_others /\ (sv.pc \in {"issue", "process", "done"} \/ sv.failed_at \in {"issue", "process"}) =>
          /\ LiveOf("A") \subseteq {sv.issued} \ {0}
          /\ \A a \in sv.before : store[a].st # "live"
    /\ ~sv.destroy_others => \A a \in AccIds : store[a].killer = 0

\* The command destroyed two accessors, then issued, and has succeeded.
C27_Witness ==
    /\ sv.destroy_others
    /\ sv.pc = "done"
    /\ sv.destroyed = 2
    /\ Cardinality(sv.before) = 2
    /\ LiveOf("A") = {sv.issued}

\* ---------------------------------------------------------------- C28
\* The lifetime every secret-id of the role is issued with.
Lifetime == role_ttl["A"]

\* The repeated runs the claim is about: the validity-period strategy, a
\* lifetime above 0, a first run that met an unexpired secret-id and whose
\* calls all succeeded, a second run no later than min_validity_period
\* percent of the lifetime after the first, and no write to a file that
\* fails.
RepeatedAsClaimed ==
    /\ ~args[1].force_rotation
    /\ Lifetime > 0
    /\ \A i \in 1..Len(trace[1]) : trace[1][i].op # "decide" => trace[1][i].ok
    /\ sv.started # None => (sv.started - StartTime) * 100 <= args[1].min_validity_period * Lifetime
    /\ sv.first.exc # "OSError" /\ sv.processed.exc # "OSError"

\* C28: in such repeated runs no login meets an expired secret-id, and a
\* run that finds at most min_validity_period percent of the lifetime left
\* rotates.
C28_RepeatedRotationNeverExpires ==
    RepeatedAsClaimed =>
        \A p \in Attempts :
            /\ \A i \in 1..Len(trace[p]) : trace[p][i].op = "login" => trace[p][i].ok
            /\ pc[p] = "done"
                  /\ ret[p].validity_period_percent[1]
                        <= args[p].min_validity_period * ret[p].validity_period_percent[2]
                  => ret[p].rotated_secret_id

\* ---------------------------------------------------------------- C29
\* C29: is_stale(threshold) is true exactly when the last handshake is at
\* least threshold seconds old, however old it is, and check_handshakes
\* resets a peer only when it is stale and its endpoint was found.
C29_StaleIffOldEnough ==
    /\ sv.stale # "unset" => (sv.stale = "True" <=> sv.age >= sv.staleness_threshold)
    /\ sv.reset => sv.age >= sv.staleness_threshold /\ sv.endpoint

\* ---------------------------------------------------------------- C30
Position(call) ==
    IF \E i \in 1..Len(sv.calls) : sv.calls[i] = call
    THEN CHOOSE i \in 1..Len(sv.calls) : sv.calls[i] = call
    ELSE 0

\* C30: when create_volume re-creates the volume of a running domain, the
\* domain is shut down before the volume is removed and started only after
\* the new volume has been created; it is not started when the creation
\* fails, and it never runs while its volume does not exist.
C30_DomainRestartedAfterCreate ==
    sv.power_cycle_domain =>
        /\ Position("remove_volume") # 0 =>
              Position("shutdown_domain") # 0 /\ Position("shutdown_domain") < Position("remove_volume")
        /\ Position("start_domain") # 0 =>
              Position("create_volume") # 0 /\ Position("create_volume") < Position("start_domain")
        /\ sv.create_failed => Position("start_domain") = 0
        /\ sv.running => sv.volume

====
